---- MODULE Spec2Model ----
(***************************************************************************)
(* The inventory page of DentalFlow (src/app/pages/2_Inventory.py): a      *)
(* Streamlit page over one Firestore collection per doctor,                *)
(* doctors/<doctor_email>/stock, keyed by item name.                       *)
(*                                                                         *)
(* A render of the page is one run of main(): it fetches the collection    *)
(* (line 55), reads the widgets, and runs the handler of the one button    *)
(* that was pressed.  Every Firestore call is its own round trip, so the   *)
(* renders of several sessions interleave between the fetch of line 55     *)
(* and the handler's write, and between the get and the update/delete of   *)
(* modify_stock.  The locals of a render (inventory_data, item_name, ...)  *)
(* die when the render ends.                                               *)
(***************************************************************************)
EXTENDS Integers, Sequences, FiniteSets, TLC

VARIABLES
    store,             \* Firestore: tenant -> (document id -> document)
    doctor_email,      \* st.session_state["doctor_email"] of each session
    pc,                \* position of each session's render
    inventory_data,    \* main()'s local of each session's render
    item_reference,    \* modify_stock's document id while between get and write
    quantity_remove,   \* modify_stock's argument while between get and write
    current_quantity,  \* modify_stock's local read from the document
    event,             \* widgets read and message shown by the handler that just ran
    history,           \* the add requests of a scripted sequence of renders
    today,             \* datetime.today().date()
    alert_items,       \* inventory_data.items() as show_alerts iterates it
    threshold,         \* "Low Stock Threshold" widget
    low_stock_items,   \* show_alerts' list of (item, quantity)
    days_threshold,    \* "Days Until Expiry" widget
    expiry_df          \* show_alerts' sorted frame of expiring items

vars == <<store, doctor_email, pc, inventory_data, item_reference, quantity_remove,
          current_quantity, event, history, today, alert_items, threshold,
          low_stock_items, days_threshold, expiry_df>>

alertVars == <<today, alert_items, threshold, low_stock_items, days_threshold, expiry_df>>

-----------------------------------------------------------------------------
(* Bounds *)

\* largest value typed into a quantity widget
MaxQty == 2
\* largest quantity the model lets a document reach
MaxStored == 3
\* largest "Low Stock Threshold" tried
MaxThreshold == 2
\* largest "Days Until Expiry" tried
MaxDays == 1

Sessions == {"s1", "s2"}
Tenants == {"a@clinic", "b@clinic"}

\* what a user types into a text widget, as a sequence of characters
TextInputs == { <<" ">>, <<" ", "G">>, <<"f", " ">> }
\* the texts behind the names of the inventories show_alerts is tried on
AlertInputs == TextInputs \cup { <<"G", "f">> }
\* the texts of the runs with two sessions
RaceInputs == { <<" ">>, <<" ", "G">> }

\* the calendar days of the model: they span the leap day of 2024
Calendar == << [y |-> 2024, m |-> 2, d |-> 28], [y |-> 2024, m |-> 2, d |-> 29],
               [y |-> 2024, m |-> 3, d |-> 1],  [y |-> 2024, m |-> 3, d |-> 2] >>
Dates == { Calendar[i] : i \in 1..Len(Calendar) }
\* the day the sessions run on
Today0 == Calendar[3]
NoDate == [y |-> 0, m |-> 0, d |-> 0]

-----------------------------------------------------------------------------
(* str.strip(), str.lower(), str.capitalize() *)

Whitespace == {" "}

RECURSIVE LStrip(_)
LStrip(s) == IF s # <<>> /\ s[1] \in Whitespace THEN LStrip(Tail(s)) ELSE s

RECURSIVE RStrip(_)
RStrip(s) == IF s # <<>> /\ s[Len(s)] \in Whitespace
             THEN RStrip(SubSeq(s, 1, Len(s) - 1)) ELSE s

NoStrip(s) == s
Strip(s) == RStrip(LStrip(s))

LowerChar(c) == CASE c = "G" -> "g" [] c = "F" -> "f" [] OTHER -> c
UpperChar(c) == CASE c = "g" -> "G" [] c = "f" -> "F" [] OTHER -> c

Lower(s) == [i \in 1..Len(s) |-> LowerChar(s[i])]

Capitalize(s) == [i \in 1..Len(s) |-> IF i = 1 THEN UpperChar(s[i]) ELSE LowerChar(s[i])]

\* st.text_input(...).strip().lower()
TextValue(raw) == Lower(Strip(raw))

-----------------------------------------------------------------------------
(* datetime: strftime("%Y-%m-%d"), strptime(..., "%Y-%m-%d"), date - date *)

DigitChar(n) == CASE n = 0 -> "0" [] n = 1 -> "1" [] n = 2 -> "2" [] n = 3 -> "3"
                  [] n = 4 -> "4" [] n = 5 -> "5" [] n = 6 -> "6" [] n = 7 -> "7"
                  [] n = 8 -> "8" [] n = 9 -> "9"
CharDigit(c) == CASE c = "0" -> 0 [] c = "1" -> 1 [] c = "2" -> 2 [] c = "3" -> 3
                  [] c = "4" -> 4 [] c = "5" -> 5 [] c = "6" -> 6 [] c = "7" -> 7
                  [] c = "8" -> 8 [] c = "9" -> 9

Strftime(date) ==
    << DigitChar(date.y \div 1000), DigitChar((date.y \div 100) % 10),
       DigitChar((date.y \div 10) % 10), DigitChar(date.y % 10), "-",
       DigitChar(date.m \div 10), DigitChar(date.m % 10), "-",
       DigitChar(date.d \div 10), DigitChar(date.d % 10) >>

Strptime(str) ==
    [ y |-> CharDigit(str[1]) * 1000 + CharDigit(str[2]) * 100
            + CharDigit(str[3]) * 10 + CharDigit(str[4]),
      m |-> CharDigit(str[6]) * 10 + CharDigit(str[7]),
      d |-> CharDigit(str[9]) * 10 + CharDigit(str[10]) ]

IsLeap(y) == (y % 4 = 0) /\ ((y % 100 # 0) \/ (y % 400 = 0))

DaysInMonth(y, m) == IF m = 2 THEN (IF IsLeap(y) THEN 29 ELSE 28)
                     ELSE IF m \in {4, 6, 9, 11} THEN 30 ELSE 31

RECURSIVE DaysBeforeMonth(_, _)
DaysBeforeMonth(y, m) == IF m <= 1 THEN 0
                         ELSE DaysBeforeMonth(y, m - 1) + DaysInMonth(y, m - 1)

DaysBeforeYear(y) == (y - 1) * 365 + ((y - 1) \div 4) - ((y - 1) \div 100)
                     + ((y - 1) \div 400)

Toordinal(date) == DaysBeforeYear(date.y) + DaysBeforeMonth(date.y, date.m) + date.d

\* (a - b).days
DaysBetween(a, b) == Toordinal(a) - Toordinal(b)

\* st.date_input(..., min_value=datetime.today()): the days on offer
DateChoices(day) == { x \in Dates : DaysBetween(x, day) >= 0 }

-----------------------------------------------------------------------------
(* Firestore documents and collections *)

EmptyCollection == << >>

\* DocumentReference.set(fields, merge=True)
MergeFields(old, new) ==
    [f \in DOMAIN old \cup DOMAIN new |-> IF f \in DOMAIN new THEN new[f] ELSE old[f]]

SetMerge(coll, id, fields) ==
    [x \in DOMAIN coll \cup {id} |->
        IF x = id
        THEN (IF id \in DOMAIN coll THEN MergeFields(coll[id], fields) ELSE fields)
        ELSE coll[x]]

\* DocumentReference.update(fields), on a document that exists
UpdateFields(coll, id, fields) == [coll EXCEPT ![id] = MergeFields(coll[id], fields)]

\* DocumentReference.delete(): no error when the document is missing
DeleteDoc(coll, id) == [x \in DOMAIN coll \ {id} |-> coll[x]]

\* the collection a session's calls go to
shared_collection(s) == "a@clinic"
stock_collection(s) == doctor_email[s]

fetch_stock(s) == store[stock_collection(s)]

store_stock(coll, item_name, item_quantity, expiry_date) ==
    SetMerge(coll, item_name, [quantity |-> item_quantity, expiry_date |-> expiry_date])

\* modify_stock's test for deleting the document
DeleteOnlyAbove(quantity, current) == quantity = 0 \/ quantity > current
RemovesAll(quantity, current) == quantity = 0 \/ quantity >= current

\* modify_stock's new quantity otherwise
RemainingOffByOne(quantity, current) == current - quantity - 1
Remaining(quantity, current) == current - quantity

\* add_items: inventory_data.get(item_name, {"quantity": 0})
FreshItem(s, item_name) ==
    IF item_name \in DOMAIN fetch_stock(s) THEN fetch_stock(s)[item_name]
    ELSE [quantity |-> 0]
existing_item(s, item_name) ==
    IF item_name \in DOMAIN inventory_data[s] THEN inventory_data[s][item_name]
    ELSE [quantity |-> 0]

OnlyNewQuantity(existing, item_quantity) == item_quantity
total_quantity(existing, item_quantity) == existing.quantity + item_quantity

-----------------------------------------------------------------------------
(* The renders *)

NoEvent == [session |-> "none", button |-> "none", text_input |-> << >>,
            item_name |-> << >>, number_input |-> 0, date_input |-> NoDate,
            message |-> "none", replaced |-> -1]

\* the quantity a document holds in the store as a call arrives, -1 when it is missing
StoredQuantity(s, name) ==
    IF name \in DOMAIN fetch_stock(s) THEN fetch_stock(s)[name].quantity ELSE -1

\* the handler of session s ran: the button, the widgets it read, the message it
\* showed, and the quantity its Firestore call found in the document
Handled(s, button, raw, name, n, date, message) ==
    event' = [session |-> s, button |-> button, text_input |-> raw,
              item_name |-> name, number_input |-> n, date_input |-> date,
              message |-> message, replaced |-> StoredQuantity(s, name)]

\* the render ends: its locals are gone
EndRender(s) ==
    /\ pc' = [pc EXCEPT ![s] = "idle"]
    /\ inventory_data' = [inventory_data EXCEPT ![s] = EmptyCollection]

\* main, line 55
Fetch(s) ==
    /\ pc[s] = "idle"
    /\ inventory_data' = [inventory_data EXCEPT ![s] = fetch_stock(s)]
    /\ pc' = [pc EXCEPT ![s] = "fetched"]
    /\ event' = NoEvent
    /\ UNCHANGED <<store, doctor_email, item_reference, quantity_remove,
                   current_quantity, alertVars>>

\* a render in which no button was pressed
ShowOnly(s) ==
    /\ pc[s] = "fetched"
    /\ EndRender(s)
    /\ event' = NoEvent
    /\ UNCHANGED <<store, doctor_email, item_reference, quantity_remove,
                   current_quantity, alertVars>>

\* add_items, "Add Item" pressed with a name
AddItem(s, raw, item_quantity, expiry_date) ==
    LET item_name == TextValue(raw)
        total == total_quantity(existing_item(s, item_name), item_quantity)
    IN  /\ pc[s] = "fetched"
        /\ item_name # << >>
        /\ total <= MaxStored
        /\ store' = [store EXCEPT ![stock_collection(s)] =
                        store_stock(@, item_name, total, Strftime(expiry_date))]
        /\ Handled(s, "add", raw, item_name, item_quantity, expiry_date, "Item Added")
        /\ EndRender(s)
        /\ UNCHANGED <<doctor_email, item_reference, quantity_remove,
                       current_quantity, alertVars>>

\* add_items, "Add Item" pressed without a name
AddItemInvalid(s, raw, item_quantity, expiry_date) ==
    LET item_name == TextValue(raw)
    IN  /\ pc[s] = "fetched"
        /\ item_name = << >>
        /\ Handled(s, "add", raw, item_name, item_quantity, expiry_date, "Entry Error")
        /\ EndRender(s)
        /\ UNCHANGED <<store, doctor_email, item_reference, quantity_remove,
                       current_quantity, alertVars>>

\* the edit tab's widgets render: st.number_input(min_value=1, value=quantity) and
\* st.date_input(value=expiry, min_value=today) raise when the value is below the minimum
EditWidgetsRender(s, edit_item) ==
    /\ edit_item \in DOMAIN inventory_data[s]
    /\ inventory_data[s][edit_item].quantity >= 1
    /\ DaysBetween(Strptime(inventory_data[s][edit_item].expiry_date), today) >= 0

\* edit_remove_items, "Save Changes" pressed
SaveEdit(s, raw, new_quantity, new_expiry) ==
    LET edit_item == TextValue(raw)
    IN  /\ pc[s] = "fetched"
        /\ EditWidgetsRender(s, edit_item)
        /\ new_quantity >= 1
        /\ store' = [store EXCEPT ![stock_collection(s)] =
                        store_stock(@, edit_item, new_quantity, Strftime(new_expiry))]
        /\ Handled(s, "save_edit", raw, edit_item, new_quantity, new_expiry, "Item Updated")
        /\ EndRender(s)
        /\ UNCHANGED <<doctor_email, item_reference, quantity_remove,
                       current_quantity, alertVars>>

\* edit_remove_items, "Find Item" pressed in the edit tab for a name not fetched
EditNotFound(s, raw) ==
    LET edit_item == TextValue(raw)
    IN  /\ pc[s] = "fetched"
        /\ edit_item \notin DOMAIN inventory_data[s]
        /\ edit_item # << >>
        /\ Handled(s, "find_edit_item", raw, edit_item, 0, NoDate, "Item Not Found")
        /\ EndRender(s)
        /\ UNCHANGED <<store, doctor_email, item_reference, quantity_remove,
                       current_quantity, alertVars>>

\* edit_remove_items, "Remove Item" pressed; modify_stock reads the document
RemoveGet(s, raw, quantity) ==
    LET removal_item == TextValue(raw)
    IN  /\ pc[s] = "fetched"
        /\ removal_item \in DOMAIN inventory_data[s]
        /\ removal_item \in DOMAIN fetch_stock(s)
        /\ pc' = [pc EXCEPT ![s] = "got"]
        \* inventory_data is not read again: line 171 returns fetch_stock()
        /\ inventory_data' = [inventory_data EXCEPT ![s] = EmptyCollection]
        /\ item_reference' = [item_reference EXCEPT ![s] = removal_item]
        /\ quantity_remove' = [quantity_remove EXCEPT ![s] = quantity]
        /\ current_quantity' = [current_quantity EXCEPT ![s] =
                                   fetch_stock(s)[removal_item].quantity]
        /\ Handled(s, "remove_button", raw, removal_item, quantity, NoDate, "none")
        /\ UNCHANGED <<store, doctor_email, alertVars>>

\* the same, the document being gone since the fetch: modify_stock does nothing
RemoveMissing(s, raw, quantity) ==
    LET removal_item == TextValue(raw)
    IN  /\ pc[s] = "fetched"
        /\ removal_item \in DOMAIN inventory_data[s]
        /\ removal_item \notin DOMAIN fetch_stock(s)
        /\ Handled(s, "remove_button", raw, removal_item, quantity, NoDate, "none")
        /\ EndRender(s)
        /\ UNCHANGED <<store, doctor_email, item_reference, quantity_remove,
                       current_quantity, alertVars>>

EndModify(s) ==
    /\ pc' = [pc EXCEPT ![s] = "idle"]
    /\ item_reference' = [item_reference EXCEPT ![s] = << >>]
    /\ quantity_remove' = [quantity_remove EXCEPT ![s] = 0]
    /\ current_quantity' = [current_quantity EXCEPT ![s] = 0]
    /\ UNCHANGED <<inventory_data, doctor_email, alertVars>>

\* modify_stock, lines 38-40
RemoveDelete(s) ==
    /\ pc[s] = "got"
    /\ RemovesAll(quantity_remove[s], current_quantity[s])
    /\ store' = [store EXCEPT ![stock_collection(s)] = DeleteDoc(@, item_reference[s])]
    /\ Handled(s, "remove_button", item_reference[s], item_reference[s],
               quantity_remove[s], NoDate, "Item Removed")
    /\ EndModify(s)

\* modify_stock, lines 41-44
RemoveUpdate(s) ==
    /\ pc[s] = "got"
    /\ ~RemovesAll(quantity_remove[s], current_quantity[s])
    /\ item_reference[s] \in DOMAIN fetch_stock(s)
    /\ store' = [store EXCEPT ![stock_collection(s)] =
                    UpdateFields(@, item_reference[s],
                        [quantity |-> Remaining(quantity_remove[s], current_quantity[s])])]
    /\ Handled(s, "remove_button", item_reference[s], item_reference[s],
               quantity_remove[s], NoDate, "Quantity Updated")
    /\ EndModify(s)

\* modify_stock, line 43 on a document deleted since the get: update() raises NotFound
RemoveUpdateFails(s) ==
    /\ pc[s] = "got"
    /\ ~RemovesAll(quantity_remove[s], current_quantity[s])
    /\ item_reference[s] \notin DOMAIN fetch_stock(s)
    /\ store' = store
    /\ Handled(s, "remove_button", item_reference[s], item_reference[s],
               quantity_remove[s], NoDate, "NotFound")
    /\ EndModify(s)

\* edit_remove_items, "Find Item" pressed in the remove tab for a name not fetched
RemoveNotFound(s, raw) ==
    LET removal_item == TextValue(raw)
    IN  /\ pc[s] = "fetched"
        /\ removal_item \notin DOMAIN inventory_data[s]
        /\ removal_item # << >>
        /\ Handled(s, "find_remove_item", raw, removal_item, 0, NoDate, "Item Not Found")
        /\ EndRender(s)
        /\ UNCHANGED <<store, doctor_email, item_reference, quantity_remove,
                       current_quantity, alertVars>>

-----------------------------------------------------------------------------
(* show_alerts *)

\* lines 205-209
AtMostStrict(quantity, limit) == quantity < limit
AtMost(quantity, limit) == quantity <= limit

RECURSIVE low_stock(_, _)
low_stock(items, limit) ==
    IF items = << >> THEN << >>
    ELSE LET item == items[1][1]
             details == items[1][2]
         IN  (IF AtMost(details.quantity, limit)
              THEN << <<item, details.quantity>> >> ELSE << >>)
             \o low_stock(Tail(items), limit)

\* lines 226-237
RECURSIVE expiry_rows(_, _, _)
expiry_rows(items, day, window) ==
    IF items = << >> THEN << >>
    ELSE LET item == items[1][1]
             details == items[1][2]
             expiry_date == Strptime(details.expiry_date)
             days_until_expiry == DaysBetween(expiry_date, day)
         IN  (IF days_until_expiry <= window
              THEN << [Item |-> Capitalize(item), Quantity |-> details.quantity,
                       DaysLeft |-> days_until_expiry] >>
              ELSE << >>)
             \o expiry_rows(Tail(items), day, window)

\* DataFrame.sort_values("Days Left"): ascending; rows with equal keys keep no
\* promised order, and no formula below depends on the order of equal keys
RECURSIVE InsertRow(_, _)
InsertRow(row, sorted) ==
    IF sorted = << >> THEN << row >>
    ELSE IF row.DaysLeft < sorted[1].DaysLeft THEN << row >> \o sorted
    ELSE << sorted[1] >> \o InsertRow(row, Tail(sorted))

RECURSIVE InsertionSort(_)
InsertionSort(rows) ==
    IF rows = << >> THEN << >>
    ELSE InsertRow(rows[Len(rows)], InsertionSort(SubSeq(rows, 1, Len(rows) - 1)))

Unsorted(rows) == rows
sort_values(rows) == InsertionSort(rows)

\* show_alerts on one day, with the two number inputs
ShowAlerts(limit, window, day) ==
    /\ pc["s1"] = "fetched"
    /\ pc' = [pc EXCEPT !["s1"] = "alerts"]
    /\ today' = day
    /\ threshold' = limit
    /\ low_stock_items' = low_stock(alert_items, limit)
    /\ days_threshold' = window
    /\ expiry_df' = sort_values(expiry_rows(alert_items, day, window))
    /\ UNCHANGED <<store, doctor_email, inventory_data, item_reference,
                   quantity_remove, current_quantity, event, history, alert_items>>

-----------------------------------------------------------------------------
(* Two sessions, of one doctor or of two *)

InitSessions ==
    /\ pc = [s \in Sessions |-> "idle"]
    /\ inventory_data = [s \in Sessions |-> EmptyCollection]
    /\ item_reference = [s \in Sessions |-> << >>]
    /\ quantity_remove = [s \in Sessions |-> 0]
    /\ current_quantity = [s \in Sessions |-> 0]
    /\ event = NoEvent
    /\ history = << >>

InitAlertsIdle ==
    /\ today = Today0
    /\ alert_items = << >>
    /\ threshold = 5
    /\ low_stock_items = << >>
    /\ days_threshold = 30
    /\ expiry_df = << >>

Init ==
    /\ store = [t \in Tenants |-> EmptyCollection]
    /\ doctor_email \in { [s \in Sessions |-> "a@clinic"],
                          [s \in Sessions |-> IF s = "s1" THEN "a@clinic" ELSE "b@clinic"] }
    /\ InitSessions
    /\ InitAlertsIdle

Next ==
    \/ \E s \in Sessions : Fetch(s) /\ UNCHANGED history
    \/ \E s \in Sessions : ShowOnly(s) /\ UNCHANGED history
    \/ \E s \in Sessions, raw \in RaceInputs, q \in 0..MaxQty, d \in DateChoices(today) :
          AddItem(s, raw, q, d) /\ UNCHANGED history
    \/ \E s \in Sessions, raw \in RaceInputs, q \in 0..MaxQty, d \in DateChoices(today) :
          AddItemInvalid(s, raw, q, d) /\ UNCHANGED history
    \/ \E s \in Sessions, raw \in RaceInputs, q \in 1..MaxStored, d \in DateChoices(today) :
          SaveEdit(s, raw, q, d) /\ UNCHANGED history
    \/ \E s \in Sessions, raw \in RaceInputs : EditNotFound(s, raw) /\ UNCHANGED history
    \/ \E s \in Sessions, raw \in RaceInputs, q \in 0..MaxStored :
          RemoveGet(s, raw, q) /\ UNCHANGED history
    \/ \E s \in Sessions, raw \in RaceInputs, q \in 0..MaxStored :
          RemoveMissing(s, raw, q) /\ UNCHANGED history
    \/ \E s \in Sessions : RemoveDelete(s) /\ UNCHANGED history
    \/ \E s \in Sessions : RemoveUpdate(s) /\ UNCHANGED history
    \/ \E s \in Sessions : RemoveUpdateFails(s) /\ UNCHANGED history
    \/ \E s \in Sessions, raw \in RaceInputs : RemoveNotFound(s, raw) /\ UNCHANGED history

Spec == Init /\ [][Next]_vars

-----------------------------------------------------------------------------
(* One session, its renders one after the other *)

LastTwo(seq) == IF Len(seq) > 2 THEN SubSeq(seq, Len(seq) - 1, Len(seq)) ELSE seq

\* the add requests handled since the last edit or removal, the last two of them
Recorded(s, raw, q) ==
    history' = LastTwo(Append(history,
                   [item_name |-> TextValue(raw), quantity |-> q,
                    existed |-> TextValue(raw) \in DOMAIN inventory_data[s]]))

Forgotten == history' = << >>

InitSeq ==
    /\ store = [t \in Tenants |-> EmptyCollection]
    /\ doctor_email = [s \in Sessions |-> "a@clinic"]
    /\ InitSessions
    /\ InitAlertsIdle

NextSeq ==
    \/ Fetch("s1") /\ UNCHANGED history
    \/ ShowOnly("s1") /\ UNCHANGED history
    \/ \E raw \in TextInputs, q \in 0..MaxQty, d \in DateChoices(today) :
          AddItem("s1", raw, q, d) /\ Recorded("s1", raw, q)
    \/ \E raw \in TextInputs, q \in 0..MaxQty, d \in DateChoices(today) :
          AddItemInvalid("s1", raw, q, d) /\ UNCHANGED history
    \/ \E raw \in TextInputs, q \in 1..MaxStored, d \in DateChoices(today) :
          SaveEdit("s1", raw, q, d) /\ Forgotten
    \/ \E raw \in TextInputs : EditNotFound("s1", raw) /\ UNCHANGED history
    \/ \E raw \in TextInputs, q \in 0..MaxStored :
          RemoveGet("s1", raw, q) /\ UNCHANGED history
    \/ RemoveDelete("s1") /\ Forgotten
    \/ RemoveUpdate("s1") /\ Forgotten
    \/ \E raw \in TextInputs : RemoveNotFound("s1", raw) /\ UNCHANGED history

SpecSeq == InitSeq /\ [][NextSeq]_vars

-----------------------------------------------------------------------------
(* show_alerts on every small inventory *)

AlertNames == { TextValue(raw) : raw \in AlertInputs } \ { << >> }

\* the quantities of those inventories: none, and some around the thresholds
AlertQuantities == {0, 2, 3}

Details == [quantity : AlertQuantities, expiry_date : { Strftime(d) : d \in Dates }]

\* the (name, document) pairs of a fetched inventory, in any order of iteration
Inventories ==
    { items \in UNION { [1..n -> AlertNames \X Details] : n \in 0..Cardinality(AlertNames) } :
        \A i, j \in 1..Len(items) : i # j => items[i][1] # items[j][1] }

InitAlerts ==
    /\ store = [t \in Tenants |-> EmptyCollection]
    /\ doctor_email = [s \in Sessions |-> "a@clinic"]
    /\ pc = [s \in Sessions |-> IF s = "s1" THEN "fetched" ELSE "idle"]
    /\ inventory_data = [s \in Sessions |-> EmptyCollection]
    /\ item_reference = [s \in Sessions |-> << >>]
    /\ quantity_remove = [s \in Sessions |-> 0]
    /\ current_quantity = [s \in Sessions |-> 0]
    /\ event = NoEvent
    /\ history = << >>
    /\ today = Today0
    /\ alert_items \in Inventories
    /\ threshold = 5
    /\ low_stock_items = << >>
    /\ days_threshold = 30
    /\ expiry_df = << >>

NextAlerts ==
    \E limit \in 1..MaxThreshold, window \in 1..MaxDays, day \in Dates :
        ShowAlerts(limit, window, day)

SpecAlerts == InitAlerts /\ [][NextAlerts]_vars

-----------------------------------------------------------------------------
(* Properties *)

TenantOf(s) == doctor_email[s]

\* the quantity session s fetched for a name at line 55, 0 when it fetched none
FetchedQuantity(s, name) ==
    IF name \in DOMAIN inventory_data[s] THEN inventory_data[s][name].quantity ELSE 0

\* C1: in one session, from a store without the item, an add of q1 units and then
\* an add of q2 units of the same name, each in its own render and with no edit
\* or removal in between, leave one document of that name, its quantity q1 + q2.
AddTwiceSums ==
    ( /\ Len(history) = 2
      /\ history[1].item_name = history[2].item_name
      /\ ~history[1].existed )
    => LET name == history[2].item_name
           coll == store[TenantOf("s1")]
       IN  /\ name \in DOMAIN coll
           /\ coll[name].quantity = history[1].quantity + history[2].quantity
           /\ Cardinality({ k \in DOMAIN coll : Lower(Strip(k)) = name }) = 1

AddTwiceSumsWitness ==
    /\ Len(history) = 2
    /\ history[1].item_name = history[2].item_name
    /\ ~history[1].existed
    /\ history[1].quantity = 1
    /\ history[2].quantity = 2
    /\ event.button = "add"
    /\ event.text_input # history[2].item_name
    /\ store[TenantOf("s1")][history[2].item_name].quantity = 3

\* C2: a removal with quantity_remove = 0, or with quantity_remove at least the
\* quantity modify_stock read, deletes the document, and a name that is absent
\* from the store (and so from every fetch) comes back only through an add.
RemovalDeletesUntilAdded ==
    [][ /\ \A s \in Sessions :
              ( /\ pc[s] = "got"
                /\ pc'[s] = "idle"
                /\ (quantity_remove[s] = 0 \/ quantity_remove[s] >= current_quantity[s]) )
              => item_reference[s] \notin DOMAIN store'[TenantOf(s)]
        /\ \A s \in Sessions :
              (pc[s] = "idle" /\ pc'[s] = "fetched")
              => inventory_data'[s] = store[TenantOf(s)]
        /\ \A t \in Tenants : \A name \in DOMAIN store'[t] \ DOMAIN store[t] :
              event'.button = "add" /\ event'.item_name = name
      ]_vars

\* C3: a removal of q units of a stored item whose quantity modify_stock read as
\* c, with 0 < q < c, leaves the item with quantity c - q and its expiry date as
\* it was, and leaves every other document as it was.
PartialRemovalFrame ==
    [][ \A s \in Sessions :
          LET t == TenantOf(s)
              name == item_reference[s]
              q == quantity_remove[s]
          IN  ( /\ pc[s] = "got"
                /\ pc'[s] = "idle"
                /\ name \in DOMAIN store[t]
                /\ current_quantity[s] = store[t][name].quantity
                /\ 0 < q
                /\ q < current_quantity[s] )
              => /\ DOMAIN store'[t] = DOMAIN store[t]
                 /\ store'[t][name].quantity = current_quantity[s] - q
                 /\ store'[t][name].expiry_date = store[t][name].expiry_date
                 /\ \A other \in DOMAIN store[t] \ {name} : store'[t][other] = store[t][other]
                 /\ \A u \in Tenants \ {t} : store'[u] = store[u]
      ]_vars

PartialRemovalFrameWitness ==
    /\ event.button = "remove_button"
    /\ event.message = "Quantity Updated"
    /\ event.number_input = 1
    /\ event.replaced = 3
    /\ LET coll == store[TenantOf("s1")]
       IN  /\ Cardinality(DOMAIN coll) = 2
           /\ coll[event.item_name].quantity = 2
           /\ \E other \in DOMAIN coll :
                 coll[other].expiry_date # coll[event.item_name].expiry_date

\* C4: whatever the sessions of a doctor do and however their calls interleave,
\* every stored quantity is >= 0, and a removal that has written leaves its item
\* either deleted or stored with a quantity > 0.
QuantityNeverNegative ==
    /\ \A t \in Tenants : \A name \in DOMAIN store[t] : store[t][name].quantity >= 0
    /\ ( /\ event.button = "remove_button"
         /\ event.message \in {"Item Removed", "Quantity Updated", "NotFound"} )
       => \/ event.item_name \notin DOMAIN store[TenantOf(event.session)]
          \/ store[TenantOf(event.session)][event.item_name].quantity > 0

\* a removal wrote a smaller quantity over a document that another session had
\* changed since modify_stock read it
QuantityNeverNegativeWitness ==
    /\ event.button = "remove_button"
    /\ event.message = "Quantity Updated"
    /\ event.item_name \in DOMAIN store[TenantOf(event.session)]
    /\ store[TenantOf(event.session)][event.item_name].quantity = 1
    /\ event.replaced # 1 + event.number_input

\* C5: a document appears in a collection only through an add, and an edit or a
\* removal whose target is absent from the store when it writes changes nothing.
OnlyAddCreates ==
    [][ /\ \A t \in Tenants : \A name \in DOMAIN store'[t] \ DOMAIN store[t] :
              event'.button = "add" /\ event'.item_name = name
        /\ ( /\ event'.button \in {"save_edit", "remove_button"}
             /\ event'.session \in Sessions
             /\ event'.replaced = -1 )
           => store' = store
      ]_vars

AllWhitespace(raw) == \A i \in 1..Len(raw) : raw[i] = " "

\* C6: "Add Item" with a name that is all whitespace shows the entry error and
\* writes nothing, whatever the quantity and the date.
EmptyNameRejected ==
    [][ (event'.button = "add" /\ AllWhitespace(event'.text_input))
        => (store' = store /\ event'.message = "Entry Error")
      ]_vars

EmptyNameRejectedWitness ==
    /\ event.button = "add"
    /\ event.text_input = <<" ">>
    /\ event.number_input = 2
    /\ event.message = "Entry Error"
    /\ store[TenantOf(event.session)] # EmptyCollection

\* C7: a step changes the collection of a doctor only when it is the handler of
\* a session of that doctor, and what a session fetches is its own doctor's
\* collection.
TenantIsolation ==
    [][ /\ \A t \in Tenants :
              store'[t] # store[t]
              => (event'.session \in Sessions /\ doctor_email[event'.session] = t)
        /\ \A s \in Sessions :
              (pc[s] = "idle" /\ pc'[s] = "fetched")
              => inventory_data'[s] = store[doctor_email[s]]
      ]_vars

TenantIsolationWitness ==
    /\ doctor_email["s1"] # doctor_email["s2"]
    /\ store[doctor_email["s1"]] # EmptyCollection
    /\ store[doctor_email["s2"]] # EmptyCollection
    /\ store[doctor_email["s1"]] # store[doctor_email["s2"]]
    /\ pc["s2"] = "fetched"
    /\ inventory_data["s2"] = store[doctor_email["s2"]]
    /\ event.session = "s1"
    /\ event.button = "add"

IsListedLow(name, quantity) ==
    \E j \in 1..Len(low_stock_items) : low_stock_items[j] = <<name, quantity>>

\* C8: the low-stock list holds exactly the items whose quantity <= threshold,
\* each once and with its quantity.
LowStockExact ==
    pc["s1"] = "alerts"
    => /\ \A i \in 1..Len(alert_items) :
             alert_items[i][2].quantity <= threshold
             <=> IsListedLow(alert_items[i][1], alert_items[i][2].quantity)
       /\ \A j \in 1..Len(low_stock_items) :
             \E i \in 1..Len(alert_items) :
                 /\ low_stock_items[j] = <<alert_items[i][1], alert_items[i][2].quantity>>
                 /\ alert_items[i][2].quantity <= threshold
       /\ Len(low_stock_items)
             = Cardinality({ i \in 1..Len(alert_items) : alert_items[i][2].quantity <= threshold })

LowStockExactWitness ==
    /\ pc["s1"] = "alerts"
    /\ Len(alert_items) = 3
    /\ Len(low_stock_items) = 2
    /\ \E i \in 1..3 : alert_items[i][2].quantity = threshold
    /\ \E i \in 1..3 : alert_items[i][2].quantity = threshold + 1

\* days-remaining counted on the calendar: the position of the day an expiry
\* string names, minus the position of the day of the render
CalendarIndex(str) == CHOOSE i \in 1..Len(Calendar) : Strftime(Calendar[i]) = str
TodayIndex == CHOOSE i \in 1..Len(Calendar) : Calendar[i] = today
DaysRemaining(i) == CalendarIndex(alert_items[i][2].expiry_date) - TodayIndex

\* C9: the expiry list holds exactly the items whose days-remaining (expiry date
\* minus the day of the render) <= the window, expired items with negative
\* days-remaining among them, each with its days-remaining, in ascending order
\* of days-remaining.
ExpiryListExact ==
    pc["s1"] = "alerts"
    => /\ \A i \in 1..Len(alert_items) :
             DaysRemaining(i) <= days_threshold
             <=> \E j \in 1..Len(expiry_df) :
                    /\ expiry_df[j].Item = Capitalize(alert_items[i][1])
                    /\ expiry_df[j].Quantity = alert_items[i][2].quantity
                    /\ expiry_df[j].DaysLeft = DaysRemaining(i)
       /\ Len(expiry_df)
             = Cardinality({ i \in 1..Len(alert_items) : DaysRemaining(i) <= days_threshold })
       /\ \A j, k \in 1..Len(expiry_df) :
             j < k => expiry_df[j].DaysLeft <= expiry_df[k].DaysLeft

ExpiryListExactWitness ==
    /\ pc["s1"] = "alerts"
    /\ Len(alert_items) = 3
    /\ Len(expiry_df) = 2
    /\ expiry_df[1].DaysLeft < 0
    /\ expiry_df[2].DaysLeft = days_threshold
    /\ DaysRemaining(1) = days_threshold
    /\ DaysRemaining(2) > days_threshold
    /\ DaysRemaining(3) < 0

\* C10: an add with a name is never refused: it writes the quantity its session
\* fetched plus its own delta, and an edit its own quantity, each with its own
\* expiry date, whatever the store holds when the write arrives: of two sessions
\* that fetched before either wrote, the later write is what is stored.
LastWriteWins ==
    [][ \A s \in Sessions :
          LET t == TenantOf(s)
              name == event'.item_name
          IN  /\ ( /\ event'.session = s
                   /\ event'.button = "add"
                   /\ ~AllWhitespace(event'.text_input) )
                 => /\ event'.message = "Item Added"
                    /\ name \in DOMAIN store'[t]
                    /\ store'[t][name].quantity
                          = FetchedQuantity(s, name) + event'.number_input
                    /\ store'[t][name].expiry_date = Strftime(event'.date_input)
              /\ ( /\ event'.session = s
                   /\ event'.button = "save_edit" )
                 => /\ name \in DOMAIN store'[t]
                    /\ store'[t][name].quantity = event'.number_input
                    /\ store'[t][name].expiry_date = Strftime(event'.date_input)
      ]_vars

\* the later add found 2 units stored where its session had fetched none, and
\* left its own single unit
LastWriteWinsWitness ==
    /\ event.button = "add"
    /\ event.message = "Item Added"
    /\ event.number_input = 1
    /\ event.replaced = 2
    /\ store[TenantOf(event.session)][event.item_name].quantity = 1

====
